---- MODULE Spec2Model ----
(***************************************************************************)
(* Movie RAG API: the retrieval and backfill pipeline.                     *)
(*                                                                         *)
(* State: the movies collection of the document store, the two process     *)
(* singletons (mongodb.collection, embedding_model.model) and, for the     *)
(* request handled last, its request, its response and the outbound calls  *)
(* it made.  Every handler is an `async def` without an await, so a        *)
(* handler runs from its first line to its response as one step.           *)
(***************************************************************************)
EXTENDS Integers, Sequences, FiniteSets, TLC

VARIABLES
    collection,   \* the movies collection, in natural (insertion) order
    client,       \* mongodb.collection: "None" or "set"
    model,        \* embedding_model.model: "None" or "loaded"
    started,      \* the startup event has run
    op,           \* name of the handler that ran last
    req,          \* the request of the handler that ran last
    resp,         \* its response
    pre,          \* the collection as it was when that handler started
    movies,       \* generate_embeddings: the selected documents
    embeddings,   \* generate_embeddings: what get_embeddings returned
    results,      \* semantic_search: what the store's aggregate returned
    calls,        \* outbound calls of that handler, in order
    loads,        \* how often SentenceTransformer(...) has returned a model
    caller        \* the client that drives the backfill batch by batch

vars == <<collection, client, model, started, op, req, resp, pre,
          movies, embeddings, results, calls, loads, caller>>

----------------------------------------------------------------------------
(* Bounds of the model *)

MaxDocs == 2      \* documents in the collection
MaxStrLen == 3    \* length of a text handed to the embedder
MaxQueryLen == 2  \* length of a search query
MaxBatch == 2     \* texts in one batch handed to the embedder
MaxOid == 3       \* well-formed identifiers are those of 1..MaxOid
MaxSkip == 1      \* largest skip a backfill request carries
MaxLimit == 2     \* largest small limit a request carries

(* Program constants *)

VECTOR_DIMENSION == 384   \* settings.VECTOR_DIMENSION
ModelDimension == 384     \* output width of settings.EMBEDDING_MODEL_NAME

\* A list of n floats that are all x, as Python's [x] * n builds it
Repeat(x, n) == [n |-> n, x |-> x]
VecLen(v) == v.n
AllZero(v) == v.n = 0 \/ v.x = 0

Chars == 1..2

Min(a, b) == IF a < b THEN a ELSE b

RECURSIVE StringsUpTo(_)
StringsUpTo(n) ==
    IF n = 0 THEN {<<>>}
    ELSE StringsUpTo(n - 1)
         \cup {Append(s, c) : s \in {t \in StringsUpTo(n - 1) : Len(t) = n - 1},
                              c \in Chars}

----------------------------------------------------------------------------
(* Python and BSON values.  A value carries its type tag; a text is the    *)
(* sequence of its characters.                                             *)

Null == [t |-> "null", s |-> <<>>]
Str(s) == [t |-> "str", s |-> s]
IntVal(n) == [t |-> "int", s |-> <<n>>]

\* Python truthiness: None, "" and 0 are falsy
Truthy(v) ==
    CASE v.t = "null" -> FALSE
      [] v.t = "str" -> Len(v.s) > 0
      [] v.t = "int" -> v.s[1] # 0

IsInstanceStr(v) == v.t = "str"

\* A Python dict display: a later pair with the same key replaces the earlier
DictLiteral(pairs) ==
    [k \in {pairs[i][1] : i \in DOMAIN pairs} |->
        pairs[CHOOSE i \in DOMAIN pairs :
                 /\ pairs[i][1] = k
                 /\ \A j \in DOMAIN pairs : pairs[j][1] = k => j <= i][2]]

\* str(ObjectId) and ObjectId(str)
ObjectIdStr(n) == ToString(n)
IsValidObjectId(s) == \E n \in 1..MaxOid : ToString(n) = s
ObjectId(s) == CHOOSE n \in 1..MaxOid : ToString(n) = s

----------------------------------------------------------------------------
(* The document store: query matching and the cursor *)

FieldValue(doc, field) == IF field \in DOMAIN doc THEN doc[field] ELSE Null

\* One field condition of a filter: $exists and $ne
MatchCond(doc, field, cond) ==
    /\ "$exists" \in DOMAIN cond => ((field \in DOMAIN doc) = cond["$exists"])
    /\ "$ne" \in DOMAIN cond => FieldValue(doc, field) # cond["$ne"]

Matches(doc, query) == \A f \in DOMAIN query : MatchCond(doc, f, query[f])

\* collection.find(query).skip(skip).limit(limit)
Find(coll, query, skip, limit) ==
    LET hits == SelectSeq(coll, LAMBDA d : Matches(d, query))
    IN SubSeq(hits, skip + 1, Min(Len(hits), skip + limit))

\* update_one({"_id": oid}, {"$set": {"plot_embedding": embedding}})
UpdateOne(coll, oid, embedding) ==
    [i \in DOMAIN coll |->
        IF coll[i]["_id"] = oid
        THEN [f \in DOMAIN coll[i] \cup {"plot_embedding"} |->
                 IF f = "plot_embedding" THEN embedding ELSE coll[i][f]]
        ELSE coll[i]]

\* modified_count of that update
ModifiedCount(coll, oid, embedding) ==
    Cardinality({i \in DOMAIN coll : coll[i]["_id"] = oid
                                    /\ UpdateOne(coll, oid, embedding)[i] # coll[i]})

----------------------------------------------------------------------------
(* The embedder (app/embeddings.py) *)

\* str(v) of a value; str(None) is the four characters of "None"
PyStr(v) ==
    CASE v.t = "str" -> v.s
      [] v.t = "null" -> <<3, 4, 3, 5>>
      [] v.t = "int" -> <<6 + v.s[1]>>

\* The number the sentence-transformers model derives from a text; never 0
RECURSIVE TextCode(_)
TextCode(s) == IF s = <<>> THEN 1 ELSE Head(s) + 7 * TextCode(Tail(s))

\* model.encode(text).tolist(): a vector of the model's own width
Encode(text) == Repeat(TextCode(PyStr(text)), ModelDimension)

\* [0.0] * settings.VECTOR_DIMENSION
ZeroVector == Repeat(0, VECTOR_DIMENSION)

\* load_model: self.model is assigned only when the load succeeds
load_model(self_model, loadOk) ==
    IF loadOk THEN [model |-> "loaded", ret |-> TRUE]
    ELSE [model |-> self_model, ret |-> FALSE]

\* how many models one call of load_model constructs
Constructs(self_model, loadOk) ==
    IF load_model(self_model, loadOk).ret THEN 1 ELSE 0

\* faulty variant: the head loads whatever self.model is
ModelIsNoneAlways(self_model) == TRUE

\* if self.model is None
ModelIsNone(self_model) == self_model = "None"

\* the lazy load at the head of get_embedding, get_embeddings, get_dimension
LazyLoad(self_model, loadOk) ==
    IF ModelIsNone(self_model) THEN load_model(self_model, loadOk).model
    ELSE self_model

\* how many models that head constructs
LazyLoads(self_model, loadOk) ==
    IF ModelIsNone(self_model) THEN Constructs(self_model, loadOk) ELSE 0

\* self.model.encode(...): raises when self.model is None (AttributeError)
\* or when the library fails on the input
EncodeRaises(m, encodeOk) == m = "None" \/ ~encodeOk

\* the guard of get_embedding: not text or not isinstance(text, str)
InvalidText(text) == ~Truthy(text) \/ ~IsInstanceStr(text)

\* faulty variant: the except branch raises again
ExceptFallbackReraises(m, value) ==
    [model |-> m, ret |-> value, raised |-> TRUE, encode |-> "raised"]

\* the except branch of get_embedding and of get_embeddings: the exception is
\* logged and the fallback value returned
ExceptFallback(m, value) ==
    [model |-> m, ret |-> value, raised |-> FALSE, encode |-> "raised"]

\* get_embedding(text)
get_embedding(self_model, text, loadOk, encodeOk) ==
    LET m == LazyLoad(self_model, loadOk)
    IN IF InvalidText(text)
       THEN [model |-> m, ret |-> ZeroVector, raised |-> FALSE,
             encode |-> "skipped"]
       ELSE IF EncodeRaises(m, encodeOk)
            THEN ExceptFallback(m, ZeroVector)
            ELSE [model |-> m, ret |-> Encode(text), raised |-> FALSE,
                  encode |-> "ok"]

\* faulty variant: one zero vector whatever the number of texts
ZeroVectorsOnce(texts) == <<ZeroVector>>

\* [[0.0] * settings.VECTOR_DIMENSION] * len(texts)
ZeroVectors(texts) == [i \in 1..Len(texts) |-> ZeroVector]

\* get_embeddings(texts)
get_embeddings(self_model, texts, loadOk, encodeOk) ==
    LET m == LazyLoad(self_model, loadOk)
    IN IF texts = <<>>
       THEN [model |-> m, ret |-> <<>>, raised |-> FALSE, encode |-> "skipped"]
       ELSE IF EncodeRaises(m, encodeOk)
            THEN ExceptFallback(m, ZeroVectors(texts))
            ELSE [model |-> m,
                  ret |-> [i \in 1..Len(texts) |-> Encode(texts[i])],
                  raised |-> FALSE, encode |-> "ok"]

\* get_dimension(): self.model.get_sentence_embedding_dimension() raises
\* (AttributeError) when the load failed and self.model is still None
get_dimension(self_model, loadOk) ==
    LET m == LazyLoad(self_model, loadOk)
    IN IF m = "None" THEN [model |-> m, ret |-> 0, raised |-> TRUE]
       ELSE [model |-> m, ret |-> ModelDimension, raised |-> FALSE]

----------------------------------------------------------------------------
(* The store client (app/database.py) *)

\* connect(): assigns self.collection unless the ping fails
connect(self_collection, connOk) == IF connOk THEN "set" ELSE self_collection

\* get_collection(): connects first when self.collection is None
get_collection(self_collection, connOk) ==
    IF self_collection = "None" THEN connect(self_collection, connOk)
    ELSE self_collection

\* the connect call get_collection makes, if any
ConnectCalls(self_collection) ==
    IF self_collection = "None" THEN <<[fn |-> "connect"]>> ELSE <<>>

\* update_movie_embedding(movie_id, embedding): ObjectId(movie_id) and
\* update_one run inside the try; any exception returns False
update_movie_embedding(coll, movie_id, embedding, storeOk) ==
    IF ~IsValidObjectId(movie_id) \/ ~storeOk
    THEN [coll |-> coll, ret |-> FALSE]
    ELSE [coll |-> UpdateOne(coll, ObjectId(movie_id), embedding),
          ret |-> ModifiedCount(coll, ObjectId(movie_id), embedding) > 0]

----------------------------------------------------------------------------
(* Request models (app/models.py) *)

\* faulty variant: no upper bound on limit
SearchRequestNoUpperLimit(r) ==
    /\ IsInstanceStr(r.query) /\ Len(r.query.s) >= 1
    /\ r.limit >= 1

\* SearchRequest: query min_length=1, limit ge=1 le=20
SearchRequest(r) ==
    /\ IsInstanceStr(r.query) /\ Len(r.query.s) >= 1
    /\ r.limit >= 1 /\ r.limit <= 20

\* EmbeddingGenerationRequest: limit ge=1 le=1000, skip ge=0
EmbeddingGenerationRequest(r) ==
    r.limit >= 1 /\ r.limit <= 1000 /\ r.skip >= 0

Http500(detail) == [status |-> 500, detail |-> detail]
Http422 == [status |-> 422]

----------------------------------------------------------------------------
(* Backfill (app/routes/movies.py, generate_embeddings) *)

\* the selection filter, written as the code writes it
BackfillQuery ==
    [plot |-> DictLiteral(<< <<"$exists", TRUE>>, <<"$ne", Null>>,
                             <<"$ne", Str(<<>>)>> >>),
     plot_embedding |-> DictLiteral(<< <<"$exists", FALSE>> >>)]

\* movie.get('plot', '')
GetPlot(movie) == IF "plot" \in DOMAIN movie THEN movie["plot"] ELSE Str(<<>>)

\* zip(movie_ids, embeddings) stops at the shorter sequence
ZipLen(a, b) == Min(Len(a), Len(b))

\* faulty variant: every attempt counted
CountedEveryAttempt(count, ret) == count + 1

\* updated_count += 1 when update_movie_embedding returned True
Counted(count, ret) == IF ret THEN count + 1 ELSE count

\* one iteration of the update loop, entered with the collection, count and
\* calls the earlier iterations left
UpdateStep(before, movie_id, embedding, storeOk) ==
    LET u == update_movie_embedding(before.coll, movie_id, embedding, storeOk)
    IN [coll |-> u.coll,
        updated_count |-> Counted(before.updated_count, u.ret),
        calls |-> Append(before.calls,
                         [fn |-> "update_one", movie_id |-> movie_id,
                          embedding |-> embedding, ret |-> u.ret])]

\* the update loop over the first n pairs: the collection afterwards, the
\* updated_count and the update calls made
RECURSIVE UpdateLoop(_, _, _, _, _)
UpdateLoop(coll, movie_ids, embs, storeOk, n) ==
    IF n = 0 THEN [coll |-> coll, updated_count |-> 0, calls |-> <<>>]
    ELSE UpdateStep(UpdateLoop(coll, movie_ids, embs, storeOk, n - 1),
                    movie_ids[n], embs[n], storeOk[n])

\* faulty variant: no early return
NotMoviesNever(sel) == FALSE

\* if not movies: return ... processed=0
NotMovies(sel) == sel = <<>>

FindCall(sel) == <<[fn |-> "find", raised |-> FALSE, n |-> Len(sel)]>>

\* the handler from the end of the update loop on
Persisted(sel, e, u) ==
    /\ model' = e.model
    /\ movies' = sel
    /\ embeddings' = e.ret
    /\ collection' = u.coll
    /\ calls' = ConnectCalls(client) \o FindCall(sel)
                \o <<[fn |-> "get_embeddings",
                      texts |-> [i \in 1..Len(sel) |-> GetPlot(sel[i])]]>>
                \o u.calls
    /\ resp' = [status |-> 200, success |-> TRUE,
                processed |-> u.updated_count]

\* the handler from the embedding of the plots on
Embedded(sel, movie_ids, e, storeOk) ==
    Persisted(sel, e, UpdateLoop(collection, movie_ids, e.ret, storeOk,
                                 ZipLen(movie_ids, e.ret)))

\* the handler after its find returned sel
Selected(sel, loadOk, encodeOk, storeOk) ==
    IF NotMovies(sel)
    THEN /\ resp' = [status |-> 200, success |-> TRUE, processed |-> 0]
         /\ calls' = ConnectCalls(client) \o FindCall(sel)
         /\ movies' = sel /\ embeddings' = <<>>
         /\ UNCHANGED <<collection, model, loads>>
    ELSE /\ loads' = loads + LazyLoads(model, loadOk)
         /\ Embedded(sel,
                     [i \in 1..Len(sel) |-> ObjectIdStr(sel[i]["_id"])],
                     get_embeddings(model,
                                    [i \in 1..Len(sel) |-> GetPlot(sel[i])],
                                    loadOk, encodeOk),
                     storeOk)

generate_embeddings(request, connOk, findOk, loadOk, encodeOk, storeOk) ==
    /\ started
    /\ op' = "generate_embeddings"
    /\ req' = request /\ pre' = collection
    /\ results' = <<>>
    /\ UNCHANGED started
    /\ IF ~EmbeddingGenerationRequest(request)
       THEN /\ resp' = Http422
            /\ calls' = <<>> /\ movies' = <<>> /\ embeddings' = <<>>
            /\ UNCHANGED <<collection, client, model, loads>>
       ELSE LET c == get_collection(client, connOk)
            IN /\ client' = c
               /\ IF c = "None" \/ ~findOk
                  THEN /\ resp' = Http500(IF c = "None" THEN "AttributeError"
                                          ELSE "PyMongoError")
                       /\ calls' = ConnectCalls(client)
                                   \o (IF c = "None" THEN <<>>
                                       ELSE <<[fn |-> "find", raised |-> TRUE,
                                               n |-> 0]>>)
                       /\ movies' = <<>> /\ embeddings' = <<>>
                       /\ UNCHANGED <<collection, model, loads>>
                  ELSE Selected(Find(collection, BackfillQuery,
                                     request.skip, request.limit),
                                loadOk, encodeOk, storeOk)

----------------------------------------------------------------------------
(* Startup (app/main.py, startup_event) *)

startup_event(connOk, loadOk) ==
    /\ ~started
    /\ started' = TRUE
    /\ client' = connect(client, connOk)
    /\ model' = load_model(model, loadOk).model
    /\ loads' = loads + Constructs(model, loadOk)
    /\ op' = "startup_event"
    /\ UNCHANGED <<collection, req, resp, pre, movies, embeddings, results,
                   calls, caller>>

----------------------------------------------------------------------------
(* Initial states and specifications *)

\* the outcomes the environment can choose for a step that is only taken
\* when `taken` holds
Outcomes(taken) == IF taken THEN BOOLEAN ELSE {TRUE}

\* the plots a document can carry: null, the empty text and two texts
PlotValues == {Null, Str(<<>>), Str(<<1>>), Str(<<2>>)}

\* a stored document with the given fields besides _id
MkDoc(id, fields, plot, vector) ==
    [f \in {"_id"} \cup fields |->
        CASE f = "_id" -> id
          [] f = "title" -> Str(<<1>>)
          [] f = "plot" -> plot
          [] f = "plot_embedding" -> vector]

\* collections of up to MaxDocs documents of docs, the i-th with _id i
CollectionsOf(docs) ==
    UNION {{c \in [1..n -> docs] : \A i \in 1..n : c[i]["_id"] = i} :
              n \in 0..MaxDocs}

NoRequest == [none |-> TRUE]

\* the process after construction: no connection, no model, nothing handled
Constructed ==
    /\ client = "None"
    /\ model = "None"
    /\ started = FALSE
    /\ op = "none"
    /\ req = NoRequest /\ resp = NoRequest
    /\ pre = collection
    /\ movies = <<>> /\ embeddings = <<>> /\ results = <<>> /\ calls = <<>>
    /\ loads = 0

\* no client drives the backfill
NoCaller == caller = NoRequest

\* documents that differ in their plot; one more already carries a vector
BackfillDocs(id) ==
    {MkDoc(id, {"title"} \cup fields, plot, ZeroVector) :
        fields \in SUBSET {"plot"}, plot \in PlotValues}
    \cup {MkDoc(id, {"title", "plot", "plot_embedding"}, Str(<<1>>), ZeroVector)}

InitBackfill ==
    /\ collection \in CollectionsOf(UNION {BackfillDocs(i) : i \in 1..MaxDocs})
    /\ Constructed /\ NoCaller

\* the accepted requests with a small window, one with the largest limit,
\* and one request for each violated constraint
BackfillRequests ==
    {[skip |-> sk, limit |-> l] : sk \in 0..MaxSkip, l \in 1..MaxLimit}
    \cup {[skip |-> 0, limit |-> 1000]}
    \cup {[skip |-> -1, limit |-> 1], [skip |-> 0, limit |-> 0],
          [skip |-> 0, limit |-> 1001]}

\* what the request's find returns when the store answers
Selection(request) ==
    IF EmbeddingGenerationRequest(request)
    THEN Find(collection, BackfillQuery, request.skip, request.limit)
    ELSE <<>>

Startup == \E connOk, loadOk \in BOOLEAN : startup_event(connOk, loadOk)

\* the outcomes of the remote steps of one backfill request, as far as the
\* handler gets: the connect, the find, the model load, the encode and each
\* update
BackfillOutcomes(request) ==
    LET sel == Selection(request)
        rec(c, f, l, e, st) ==
            [connOk |-> c, findOk |-> f, loadOk |-> l, encodeOk |-> e,
             storeOk |-> st]
        allOk == [i \in 1..Len(sel) |-> TRUE]
    IN IF ~EmbeddingGenerationRequest(request)
       THEN {rec(TRUE, TRUE, TRUE, TRUE, allOk)}
       ELSE (IF client = "None" THEN {rec(FALSE, TRUE, TRUE, TRUE, allOk)}
             ELSE {})
            \cup {rec(TRUE, FALSE, TRUE, TRUE, allOk)}
            \cup (IF sel = <<>>
                  THEN {rec(TRUE, TRUE, TRUE, TRUE, allOk)}
                  ELSE {rec(TRUE, TRUE, l, e, st) :
                           l \in Outcomes(ModelIsNone(model)),
                           e \in BOOLEAN,
                           st \in [1..Len(sel) -> BOOLEAN]})

Backfill ==
    \E request \in BackfillRequests :
       \E o \in BackfillOutcomes(request) :
          /\ generate_embeddings(request, o.connOk, o.findOk, o.loadOk,
                                 o.encodeOk, o.storeOk)
          /\ UNCHANGED caller

NextBackfill == Startup \/ Backfill

SpecBackfill == InitBackfill /\ [][NextBackfill]_vars

----------------------------------------------------------------------------
(* A client that backfills the whole collection batch by batch, the way    *)
(* the handler's documentation of limit and skip describes: it posts a     *)
(* fixed limit, either with skip = 0 every time or with a skip that it     *)
(* advances by limit after each batch, and stops at the first response     *)
(* with processed = 0.  Nothing else writes to the collection, and the     *)
(* store answers every find and every update.                              *)

\* the skip of the request after one with the given skip
NextSkip(strategy, skip, limit) ==
    IF strategy = "advance" THEN skip + limit ELSE 0

Strategies == {"again", "advance"}

InitCaller ==
    /\ collection \in CollectionsOf(UNION {BackfillDocs(i) : i \in 1..MaxDocs})
    /\ Constructed
    /\ caller \in {[strategy |-> s, skip |-> 0, limit |-> l, done |-> FALSE] :
                       s \in Strategies, l \in 1..MaxLimit}

\* the caller's next request and what it makes of the response
Invoke ==
    /\ ~caller.done
    /\ \E loadOk \in Outcomes(ModelIsNone(model)), encodeOk \in BOOLEAN :
          generate_embeddings([skip |-> caller.skip, limit |-> caller.limit],
                              TRUE, TRUE, loadOk, encodeOk,
                              [i \in 1..MaxDocs |-> TRUE])
    /\ caller' = [caller EXCEPT
                     !.done = resp'.processed = 0,
                     !.skip = NextSkip(caller.strategy, @, caller.limit)]

NextCaller == Startup \/ Invoke

SpecCaller == InitCaller /\ [][NextCaller]_vars

----------------------------------------------------------------------------
(* Retrieval (app/database.py vector_search, app/routes/movies.py) *)

\* faulty variant: numCandidates without the over-fetch factor
VectorSearchStageNoOverFetch(query_embedding, limit) ==
    [index |-> "movie_embeddings_index", path |-> "plot_embedding",
     queryVector |-> query_embedding, numCandidates |-> limit,
     limit |-> limit]

\* the $vectorSearch stage vector_search builds
VectorSearchStage(query_embedding, limit) ==
    [index |-> "movie_embeddings_index", path |-> "plot_embedding",
     queryVector |-> query_embedding, numCandidates |-> limit * 10,
     limit |-> limit]

\* the positions of the documents the vector index holds
Indexed(coll, path) == {i \in DOMAIN coll : path \in DOMAIN coll[i]}

\* the orders in which the index can rank its documents against a query
Rankings(coll, path) ==
    {r \in [1..Cardinality(Indexed(coll, path)) -> Indexed(coll, path)] :
        \A i, j \in DOMAIN r : r[i] = r[j] => i = j}

\* the $project stage: the listed fields a document has, and its score
Project(doc, score) ==
    [f \in (DOMAIN doc \cap {"_id", "title", "plot", "year", "genres", "cast"})
           \cup {"score"} |->
        IF f = "score" THEN score ELSE doc[f]]

\* collection.aggregate(pipeline): the store takes the numCandidates nearest
\* documents of the ranking and returns the first `limit` of them
Aggregate(coll, stage, ranking) ==
    LET n == Min(stage.limit, Min(stage.numCandidates, Len(ranking)))
    IN [i \in 1..n |-> Project(coll[ranking[i]], 100 - i)]

\* result['_id'] = str(result['_id']) for every result
StrIds(res) ==
    [i \in 1..Len(res) |->
        [f \in DOMAIN res[i] |->
            IF f = "_id" THEN ObjectIdStr(res[i][f]) ELSE res[i][f]]]

\* SearchResult(**result) raises unless _id, title and score are there
SearchResultRaises(result) ==
    ~({"_id", "title", "score"} \subseteq DOMAIN result)

\* SearchResult(**result): _id under its alias, absent optionals as None
SearchResult(result) ==
    [id |-> result["_id"], title |-> result["title"],
     plot |-> FieldValue(result, "plot"), score |-> result["score"]]

\* faulty variant: the results re-sorted, here into the reverse order
SearchResponseResorted(query, search_results) ==
    [status |-> 200, query |-> query,
     results |-> [i \in 1..Len(search_results) |->
                     search_results[Len(search_results) + 1 - i]],
     count |-> Len(search_results)]

\* SearchResponse(query, results, count=len(search_results))
SearchResponse(query, search_results) ==
    [status |-> 200, query |-> query, results |-> search_results,
     count |-> Len(search_results)]

\* the handler after vector_search returned res
Searched(request, res) ==
    IF \E i \in 1..Len(res) : SearchResultRaises(res[i])
    THEN resp' = Http500("ValidationError")
    ELSE resp' = SearchResponse(request.query,
                                [i \in 1..Len(res) |-> SearchResult(res[i])])

\* the handler after get_embedding returned e
Embedding(request, e, connOk, searchOk, ranking) ==
    /\ model' = e.model
    /\ client' = get_collection(client, connOk)
    /\ IF client' = "None" \/ ~searchOk
       THEN /\ resp' = Http500(IF client' = "None" THEN "AttributeError"
                               ELSE "OperationFailure")
            /\ results' = <<>>
            /\ calls' = <<[fn |-> "get_embedding", text |-> request.query]>>
                        \o ConnectCalls(client)
                        \o (IF client' = "None" THEN <<>>
                            ELSE <<[fn |-> "aggregate", raised |-> TRUE,
                                    stage |-> VectorSearchStage(e.ret,
                                                                request.limit)]>>)
       ELSE /\ results' = Aggregate(collection,
                                    VectorSearchStage(e.ret, request.limit),
                                    ranking)
            /\ calls' = <<[fn |-> "get_embedding", text |-> request.query]>>
                        \o ConnectCalls(client)
                        \o <<[fn |-> "aggregate", raised |-> FALSE,
                              stage |-> VectorSearchStage(e.ret,
                                                          request.limit)]>>
            /\ Searched(request, StrIds(results'))

semantic_search(request, loadOk, encodeOk, connOk, searchOk, ranking) ==
    /\ started
    /\ op' = "semantic_search"
    /\ req' = request /\ pre' = collection
    /\ movies' = <<>> /\ embeddings' = <<>>
    /\ UNCHANGED <<collection, started, caller>>
    /\ IF ~SearchRequest(request)
       THEN /\ resp' = Http422
            /\ calls' = <<>> /\ results' = <<>>
            /\ UNCHANGED <<client, model, loads>>
       ELSE /\ loads' = loads + LazyLoads(model, loadOk)
            /\ Embedding(request,
                         get_embedding(model, request.query, loadOk, encodeOk),
                         connOk, searchOk, ranking)

\* get_movie(movie_id): every exception of the body, the HTTPException for
\* the missing movie among them, reaches `except Exception`
MovieResponseRaises(movie) == ~({"_id", "title"} \subseteq DOMAIN movie)

\* MovieResponse(**movie), the response model applied to what get_movie returns
MovieResponse(movie) ==
    [status |-> 200, id |-> ObjectIdStr(movie["_id"]),
     title |-> movie["title"], plot |-> FieldValue(movie, "plot")]

\* find_one({"_id": oid}): the positions of the matching documents
FindOne(coll, oid) == {i \in DOMAIN coll : coll[i]["_id"] = oid}

\* what the try body of get_movie raises: "" when it returns
GetMovieBodyRaises(coll, c, movie_id, findOk) ==
    IF c = "None" THEN "AttributeError"
    ELSE IF ~IsValidObjectId(movie_id) THEN "InvalidId"
    ELSE IF ~findOk THEN "PyMongoError"
    ELSE IF FindOne(coll, ObjectId(movie_id)) = {} THEN "HTTPException(404)"
    ELSE ""

\* the classes `except Exception` catches
IsException(raised) ==
    raised \in {"InvalidId", "AttributeError", "PyMongoError",
                "HTTPException(404)"}

\* the response to an exception that leaves the try body
GetMovieExcept(raised) ==
    IF IsException(raised) THEN Http500(raised)
    ELSE [status |-> 404, detail |-> "Movie not found"]

get_movie(movie_id, connOk, findOk) ==
    /\ started
    /\ op' = "get_movie"
    /\ req' = [movie_id |-> movie_id] /\ pre' = collection
    /\ movies' = <<>> /\ embeddings' = <<>> /\ results' = <<>>
    /\ UNCHANGED <<collection, started, model, loads, caller>>
    /\ client' = get_collection(client, connOk)
    /\ calls' = ConnectCalls(client)
                \o (IF client' = "None" \/ ~IsValidObjectId(movie_id) THEN <<>>
                    ELSE <<[fn |-> "find_one", raised |-> ~findOk]>>)
    /\ LET raised == GetMovieBodyRaises(collection, client', movie_id, findOk)
       IN IF raised # ""
          THEN resp' = GetMovieExcept(raised)
          ELSE LET movie == collection[CHOOSE i \in FindOne(collection,
                                                  ObjectId(movie_id)) : TRUE]
               IN IF MovieResponseRaises(movie)
                  THEN resp' = Http500("ResponseValidationError")
                  ELSE resp' = MovieResponse(movie)

\* documents that differ in having a title and in having a vector
SearchDocs(id) ==
    {MkDoc(id, {"plot"} \cup fields, Str(<<id>>), Encode(Str(<<id>>))) :
        fields \in SUBSET {"title", "plot_embedding"}}

InitSearch ==
    /\ collection \in CollectionsOf(UNION {SearchDocs(i) : i \in 1..MaxDocs})
    /\ Constructed /\ NoCaller

\* the query of n characters
Query(n) == Str([i \in 1..n |-> 1])

\* the accepted requests with a small limit or the largest one, and one
\* request for each violated constraint
SearchRequests ==
    {[query |-> Query(n), limit |-> l] :
        n \in 1..MaxQueryLen, l \in (1..MaxLimit) \cup {20}}
    \cup {[query |-> Query(0), limit |-> 1], [query |-> Query(1), limit |-> 0],
          [query |-> Query(1), limit |-> 21]}

\* the outcomes of the remote steps of one search request, as far as the
\* handler gets: the model load, the encode, the connect, the aggregate and
\* the order in which the index ranks its documents
SearchOutcomes(request) ==
    LET rec(l, e, c, a, r) ==
            [loadOk |-> l, encodeOk |-> e, connOk |-> c, searchOk |-> a,
             ranking |-> r]
    IN IF ~SearchRequest(request)
       THEN {rec(TRUE, TRUE, TRUE, TRUE, <<>>)}
       ELSE {rec(l, e, c, a, r) :
                l \in Outcomes(ModelIsNone(model)), e \in BOOLEAN,
                c \in Outcomes(client = "None"), a \in {TRUE},
                r \in Rankings(collection, "plot_embedding")}
            \cup {rec(l, e, TRUE, FALSE, <<>>) :
                     l \in Outcomes(ModelIsNone(model)), e \in BOOLEAN}

Search ==
    \E request \in SearchRequests :
       \E o \in SearchOutcomes(request) :
          semantic_search(request, o.loadOk, o.encodeOk, o.connOk, o.searchOk,
                          o.ranking)

\* the identifiers a caller can send: those of 1..MaxOid and a malformed one
MovieIds == {ToString(n) : n \in 1..MaxOid} \cup {"zz"}

Fetch ==
    \E movie_id \in MovieIds :
       \E connOk \in Outcomes(client = "None"), findOk \in BOOLEAN :
          get_movie(movie_id, connOk, findOk)

NextSearch == Startup \/ Search \/ Fetch

SpecSearch == InitSearch /\ [][NextSearch]_vars

----------------------------------------------------------------------------
(* The embedder on its own: get_embedding and get_embeddings applied to     *)
(* texts of every kind, with the model loaded or not                       *)

embed_one(text, loadOk, encodeOk) ==
    /\ op' = "get_embedding"
    /\ req' = [text |-> text, self_model |-> model]
    /\ resp' = get_embedding(model, text, loadOk, encodeOk)
    /\ model' = resp'.model
    /\ loads' = loads + LazyLoads(model, loadOk)
    /\ UNCHANGED <<collection, client, started, pre, movies, embeddings,
                   results, calls, caller>>

embed_batch(texts, loadOk, encodeOk) ==
    /\ op' = "get_embeddings"
    /\ req' = [texts |-> texts, self_model |-> model]
    /\ resp' = get_embeddings(model, texts, loadOk, encodeOk)
    /\ model' = resp'.model
    /\ loads' = loads + LazyLoads(model, loadOk)
    /\ UNCHANGED <<collection, client, started, pre, movies, embeddings,
                   results, calls, caller>>

\* what a caller can hand to get_embedding: None, numbers and texts
Texts == {Null, IntVal(0), IntVal(1)} \cup {Str(s) : s \in StringsUpTo(MaxStrLen)}

Batches == UNION {[1..n -> PlotValues] : n \in 0..MaxBatch}

InitEmbedder == collection = <<>> /\ Constructed /\ NoCaller

EmbedOne ==
    \E text \in Texts, loadOk \in Outcomes(ModelIsNone(model)), encodeOk \in BOOLEAN :
       embed_one(text, loadOk, encodeOk)

EmbedBatch ==
    \E texts \in Batches, loadOk \in Outcomes(ModelIsNone(model)),
       encodeOk \in BOOLEAN :
       embed_batch(texts, loadOk, encodeOk)

NextEmbedder == EmbedOne \/ EmbedBatch

SpecEmbedder == InitEmbedder /\ [][NextEmbedder]_vars

----------------------------------------------------------------------------
(* The model load over the life of one process: the startup event, then    *)
(* the embedder's calls of the requests in any order.  The handlers that   *)
(* make these calls are coroutines without an await, so the event loop     *)
(* runs each call to its end before the next one begins.                   *)

dimension(loadOk) ==
    /\ op' = "get_dimension"
    /\ req' = [self_model |-> model]
    /\ resp' = get_dimension(model, loadOk)
    /\ model' = resp'.model
    /\ loads' = loads + LazyLoads(model, loadOk)
    /\ UNCHANGED <<collection, client, started, pre, movies, embeddings,
                   results, calls, caller>>

Dimension == \E loadOk \in Outcomes(ModelIsNone(model)) : dimension(loadOk)

\* the calls the requests make once the startup event has run
Requests == started /\ (EmbedOne \/ EmbedBatch \/ Dimension)

NextLoad == Startup \/ Requests

SpecLoad == InitEmbedder /\ [][NextLoad]_vars

----------------------------------------------------------------------------
(* Properties *)

\* a document's text is present, not null and not the empty string
HasText(doc) ==
    "plot" \in DOMAIN doc /\ doc["plot"] # Null /\ doc["plot"] # Str(<<>>)

HasVector(doc) == "plot_embedding" \in DOMAIN doc

\* the calls of the last handler to the function fn
CallsTo(fn) == SelectSeq(calls, LAMBDA c : c.fn = fn)

\* the documents of coll that have a text and no vector
LackVector(coll) == {i \in DOMAIN coll : HasText(coll[i]) /\ ~HasVector(coll[i])}

\* C1: every document a backfill invocation selects, embeds or updates has a
\* plot that is present, not null and not empty, and had no vector when it
\* was selected.
C1_SelectedHaveText ==
    op = "generate_embeddings" =>
        /\ \A i \in DOMAIN movies : HasText(movies[i]) /\ ~HasVector(movies[i])
        /\ \A k \in DOMAIN CallsTo("get_embeddings") :
              \A i \in DOMAIN CallsTo("get_embeddings")[k].texts :
                 /\ CallsTo("get_embeddings")[k].texts[i] # Null
                 /\ CallsTo("get_embeddings")[k].texts[i] # Str(<<>>)

\* C2: get_movie with a well-formed identifier that matches no document ends
\* in status 404 and not in status 500, and get_movie with a malformed
\* identifier ends in an outcome other than the not-found one.
C2_MissingIs404 ==
    (op = "get_movie" /\ client = "set") =>
        /\ (/\ IsValidObjectId(req.movie_id)
            /\ \A k \in DOMAIN CallsTo("find_one") : ~CallsTo("find_one")[k].raised
            /\ FindOne(collection, ObjectId(req.movie_id)) = {})
           => resp.status = 404
        /\ ~IsValidObjectId(req.movie_id) => resp.status # 404

\* C3: a document that has a vector is not rewritten by a later backfill
\* invocation, and of two backfill invocations in succession the second
\* reports at most as many processed documents as there were documents with
\* a text and without a vector after the first.
C3_SecondRunBounded ==
    [][(/\ op = "generate_embeddings" /\ resp.status = 200
        /\ op' = "generate_embeddings" /\ resp'.status = 200)
       => /\ resp'.processed <= Cardinality(LackVector(collection))
          /\ \A i \in DOMAIN collection :
                HasVector(collection[i]) => collection'[i] = collection[i]]_vars

C5_OverFetchTenfold ==
    (op = "semantic_search" /\ req.limit \in 1..20 /\ Len(req.query.s) >= 1) =>
        /\ Len(CallsTo("aggregate")) <= 1
        /\ \A k \in DOMAIN CallsTo("aggregate") :
              /\ CallsTo("aggregate")[k].stage.numCandidates = req.limit * 10
              /\ CallsTo("aggregate")[k].stage.limit = req.limit
        /\ resp.status = 200 =>
              /\ Len(CallsTo("aggregate")) = 1
              /\ Len(resp.results) <= req.limit
        /\ Len(results) <= req.limit

C5_Witness ==
    /\ op = "semantic_search" /\ resp.status = 200
    /\ req.limit = 1
    /\ Cardinality(Indexed(collection, "plot_embedding")) = 2
    /\ Len(resp.results) = 1
    /\ CallsTo("aggregate")[1].stage.numCandidates = 10

\* C6: get_embedding returns the all-zero vector of the configured dimension,
\* and does not raise, for every input that is empty or not a string and
\* whenever the model errors, a model that failed to load included.
C6_FailsSoft ==
    op = "get_embedding" =>
        /\ ~resp.raised
        /\ (\/ req.text.t # "str"
            \/ req.text.s = <<>>
            \/ resp.encode = "raised"
            \/ model = "None")
           => /\ VecLen(resp.ret) = VECTOR_DIMENSION
              /\ AllZero(resp.ret)

C6_Witness ==
    /\ op = "get_embedding"
    /\ req.text = Str(<<1, 2>>)
    /\ model = "None"
    /\ resp.encode = "raised"
    /\ resp.ret = Repeat(0, VECTOR_DIMENSION)

\* C7: a backfill invocation whose selection is empty returns success with
\* processed = 0, calls neither the embedder nor the store update, and leaves
\* every document as it was.
C7_EmptySelection ==
    (/\ op = "generate_embeddings"
     /\ \E k \in DOMAIN CallsTo("find") :
           ~CallsTo("find")[k].raised /\ CallsTo("find")[k].n = 0)
    => /\ resp = [status |-> 200, success |-> TRUE, processed |-> 0]
       /\ CallsTo("get_embeddings") = <<>>
       /\ CallsTo("update_one") = <<>>
       /\ collection = pre

C7_Witness ==
    /\ op = "generate_embeddings"
    /\ req.skip = 1
    /\ Len(collection) = 2
    /\ Cardinality(LackVector(collection)) = 1
    /\ movies = <<>>
    /\ resp.status = 200 /\ resp.processed = 0

\* C8: each selected document gets exactly one update attempt, in selection
\* order and with the vector the embedder returned for its own text;
\* processed counts the attempts the store reported as a modification, so
\* 0 <= processed <= selected <= limit; and the invocation reports success
\* when updates fail.
C8_OneAttemptEach ==
    (op = "generate_embeddings" /\ movies # <<>>) =>
        /\ Len(CallsTo("update_one")) = Len(movies)
        /\ \A i \in DOMAIN movies :
              /\ CallsTo("update_one")[i].movie_id = ObjectIdStr(movies[i]["_id"])
              /\ CallsTo("update_one")[i].embedding = embeddings[i]
              /\ embeddings[i] \in {Encode(GetPlot(movies[i])),
                                    Repeat(0, VECTOR_DIMENSION)}
              /\ CallsTo("update_one")[i].ret =>
                    /\ ~HasVector(pre[movies[i]["_id"]])
                    /\ collection[movies[i]["_id"]]["plot_embedding"]
                          = embeddings[i]
        /\ (\A i, j \in DOMAIN movies :
               embeddings[i] = Repeat(0, VECTOR_DIMENSION)
                  => embeddings[j] = Repeat(0, VECTOR_DIMENSION))
        /\ resp.status = 200 /\ resp.success
        /\ resp.processed =
              Cardinality({i \in DOMAIN movies : CallsTo("update_one")[i].ret})
        /\ 0 <= resp.processed /\ resp.processed <= Len(movies)
        /\ Len(movies) <= req.limit

C8_Witness ==
    /\ op = "generate_embeddings"
    /\ Len(movies) = 2
    /\ resp.processed = 1
    /\ ~CallsTo("update_one")[1].ret /\ CallsTo("update_one")[2].ret
    /\ embeddings[1] # embeddings[2]

\* C9: a search request with an empty query or a limit outside 1..20 is
\* rejected with a validation error and reaches neither the embedder nor the
\* store.
C9_RejectedBeforeCalls ==
    (op = "semantic_search"
     /\ (Len(req.query.s) = 0 \/ req.limit < 1 \/ req.limit > 20))
    => /\ resp.status = 422
       /\ calls = <<>>
       /\ results = <<>>

C9_Witness ==
    /\ op = "semantic_search"
    /\ req.limit = 21 /\ req.query = Query(1)
    /\ resp.status = 422
    /\ collection # <<>>

\* C10: every document has no vector or a vector of exactly VECTOR_DIMENSION
\* entries, and the batch embedder returns exactly one vector of that
\* dimension per input text.
C10_VectorDimension ==
    /\ \A i \in DOMAIN collection :
          HasVector(collection[i]) =>
             VecLen(collection[i]["plot_embedding"]) = VECTOR_DIMENSION
    /\ op = "generate_embeddings" =>
          /\ Len(embeddings) = Len(movies)
          /\ \A i \in DOMAIN embeddings : VecLen(embeddings[i]) = VECTOR_DIMENSION

C10_Witness ==
    /\ op = "generate_embeddings"
    /\ Len(movies) = 2
    /\ resp.processed = 2
    /\ embeddings[1] = Repeat(0, VECTOR_DIMENSION)
    /\ \A i \in DOMAIN collection : HasVector(collection[i])

\* C11: the model load is idempotent.  Over the startup load and the
\* get_embedding, get_embeddings and get_dimension calls of the requests, in
\* whatever order the process runs them, SentenceTransformer(...) returns a
\* model at most once, and once self.model is set no call constructs another:
\* the number of models constructed is 0 while self.model is None and 1 from
\* then on.
C11_LoadedAtMostOnce ==
    /\ loads <= 1
    /\ model = "loaded" <=> loads = 1

\* the startup load failed, a request loaded the model lazily, and a later
\* call found it loaded
C11_Witness ==
    /\ started
    /\ op \in {"get_embedding", "get_embeddings", "get_dimension"}
    /\ req.self_model = "loaded"
    /\ model = "loaded"
    /\ loads = 1

\* C12: re-running backfill only ever shrinks the set of documents that have
\* a text and lack a vector, and a caller that re-invokes with a fixed limit,
\* with skip = 0 each time or with skip advanced by limit, until a response
\* has processed = 0, ends with no document that has a text left without a
\* vector.
C12_RerunConverges ==
    /\ LackVector(collection) \subseteq LackVector(pre)
    /\ caller.done => LackVector(collection) = {}

====
